---- MODULE Spec2Model ----
(***************************************************************************)
(* LDAPEntry (src/entry.cc): one directory record with its current         *)
(* attribute values (_data), its staged additions (_added) and removals    *)
(* (_removed), and Sync(), which turns the staged edits into one           *)
(* ldap_add_ext_s / ldap_modify_ext_s request.                             *)
(*                                                                         *)
(* A std::map is modelled as a function whose DOMAIN is its key set; a     *)
(* std::string as a tuple of characters, so that c_str() can stop at a NUL *)
(* as it does in the code.                                                 *)
(***************************************************************************)
EXTENDS Integers, Sequences, FiniteSets, TLC

VARIABLES
    _dn,        \* LDAPEntry::_dn
    _isnew,     \* LDAPEntry::_isnew
    _data,      \* LDAPEntry::_data    : attribute -> values
    _added,     \* LDAPEntry::_added   : attribute -> values staged by AddValue
    _removed,   \* LDAPEntry::_removed : attribute -> values staged by Remove*
    call,       \* the method call made last, with its arguments
    ret,        \* what that call returned
    err,        \* how that call ended: "none", "LDAPException", "crash"
    sent,       \* the requests that call handed to the LDAP library
    sim,        \* history: attribute -> values, by the documented add/remove rules
    base        \* history: attribute values at hydration / last accepted Sync

vars == <<_dn, _isnew, _data, _added, _removed, call, ret, err, sent, sim, base>>

----------------------------------------------------------------------------
(* Bounds of the model *)

\* most values staged in _added and _removed together
MaxStaged == 3
\* most values per attribute in a hydrated entry
MaxRaw == 2

----------------------------------------------------------------------------
(* Strings *)

NUL == "NUL"
EmptyString == << >>
Bob == <<"B", "o", "b">>
Photo == <<"J", NUL, "F">>
Values == {Bob, Photo}

\* std::map<std::string, ...> iterates its keys in ascending order
AttrOrder == <<"cn", "mail">>
Names == {AttrOrder[i] : i \in 1..Len(AttrOrder)}

DNs == {"uid=bob,ou=people"}

\* std::string::c_str() read as a C string (strdup): the characters before
\* the first NUL
RECURSIVE CStr(_)
CStr(s) ==
    IF s = << >> \/ Head(s) = NUL THEN << >>
    ELSE <<Head(s)>> \o CStr(Tail(s))

----------------------------------------------------------------------------
(* Helpers over maps and vectors *)

NoMap == [n \in {} |-> << >>]

\* std::map::erase(key)
Erase(m, n) == [k \in DOMAIN m \ {n} |-> m[k]]

\* m[n] = v, creating the key when absent
Put(m, n, v) == [k \in DOMAIN m \cup {n} |-> IF k = n THEN v ELSE m[k]]

\* the values a map holds for n, the empty list when the key is absent
Held(m, n) == IF n \in DOMAIN m THEN m[n] ELSE << >>

\* the keys of a map in iteration order
Keys(m) == SelectSeq(AttrOrder, LAMBDA n : n \in DOMAIN m)

\* number of elements of a vector that compare equal to v
Count(s, v) == Cardinality({i \in 1..Len(s) : s[i] = v})

Copies(v, k) == [i \in 1..k |-> v]

Without(s, v) == SelectSeq(s, LAMBDA x : x # v)

Total(m) == [n \in Names |-> Held(m, n)]

RECURSIVE SumLen(_, _)
SumLen(m, S) ==
    IF S = {} THEN 0
    ELSE LET n == CHOOSE x \in S : TRUE
         IN  Len(m[n]) + SumLen(m, S \ {n})

\* number of values a map holds over all its keys
Size(m) == SumLen(m, DOMAIN m)

SeqsUpTo(S, k) == UNION {[1..i -> S] : i \in 0..k}

----------------------------------------------------------------------------
(* Construction *)

NoCall == [op |-> "new"]

\* what a call returns, tagged with its C++ type
Void == [type |-> "void"]
RetDN(d) == [type |-> "dn", dn |-> d]
RetKeys(k) == [type |-> "keys", keys |-> k]
RetVector(v) == [type |-> "vector", vec |-> v]
RetString(x) == [type |-> "string", str |-> x]
RetCode(rc) == [type |-> "rc", rc |-> rc]
RetStream(dn, comment, pairs) ==
    [type |-> "ostream", dnline |-> dn, comment |-> comment, pairs |-> pairs]

\* raw entries a search can hand to the hydrating constructor
RawEntries ==
    UNION {[S -> (SeqsUpTo(Values, MaxRaw) \ {<< >>})] : S \in SUBSET Names}

\* LDAPEntry(LDAPConnection*, std::string dn)
InitNew ==
    /\ _dn \in DNs
    /\ _isnew = TRUE
    /\ _data = NoMap
    /\ base = Total(NoMap)

\* std::string(bv_val, bv_len): the bv_len bytes, a NUL among them kept
BervalString(bv) == [i \in 1..Len(bv) |-> bv[i]]

\* std::string(bv_val): the bytes before the first NUL
HydrateAsCStrings(raw) ==
    [n \in DOMAIN raw |-> [i \in 1..Len(raw[n]) |-> CStr(raw[n][i])]]

\* _data after the attribute loop of the hydrating constructor
Hydrate(raw) ==
    [n \in DOMAIN raw |-> [i \in 1..Len(raw[n]) |-> BervalString(raw[n][i])]]

\* LDAPEntry(LDAPConnection*, LDAPMessage*); base keeps the raw entry
InitHydrated ==
    /\ _dn \in DNs
    /\ _isnew = FALSE
    /\ \E raw \in RawEntries :
          /\ _data = Hydrate(raw)
          /\ base = Total(raw)

Init ==
    /\ (InitNew \/ InitHydrated)
    /\ _added = NoMap
    /\ _removed = NoMap
    /\ call = NoCall
    /\ ret = Void
    /\ err = "none"
    /\ sent = << >>
    /\ sim = base

\* number of values staged for the next Sync
Staged == Size(_added) + Size(_removed)

\* a call can be made as long as the process has not died
Alive == err # "crash"

----------------------------------------------------------------------------
(* Queries *)

\* std::string LDAPEntry::GetDN()
GetDN ==
    /\ Alive
    /\ call' = [op |-> "GetDN"]
    /\ ret' = RetDN(_dn)
    /\ err' = "none"
    /\ sent' = << >>
    /\ UNCHANGED <<_dn, _isnew, _data, _added, _removed>>

\* the vector GetKeys() builds: one push_back per map entry
KeysOf(m) == Keys(m)

\* SearchableVector<std::string> LDAPEntry::GetKeys()
GetKeys ==
    /\ Alive
    /\ call' = [op |-> "GetKeys"]
    /\ ret' = RetKeys(KeysOf(_data))
    /\ err' = "none"
    /\ sent' = << >>
    /\ UNCHANGED <<_dn, _isnew, _data, _added, _removed>>

\* std::map::operator[]: the key is default-constructed when absent
Subscript(m, n) == IF n \in DOMAIN m THEN m ELSE Put(m, n, << >>)

\* SearchableVector<std::string> LDAPEntry::GetValue(std::string attribute)
GetValue(attribute) ==
    /\ Alive
    /\ call' = [op |-> "GetValue", attribute |-> attribute]
    /\ _data' = Subscript(_data, attribute)
    /\ ret' = RetVector(_data'[attribute])
    /\ err' = "none"
    /\ sent' = << >>
    /\ UNCHANGED <<_dn, _isnew, _added, _removed>>

\* what reading front() of an empty vector can yield when it does not trap
Garbage == <<"?">>
UndefinedReads == Values \cup {EmptyString, Garbage}

\* std::string LDAPEntry::GetFirstValue(std::string attribute)
\* front() of an empty vector is undefined: the call may return any string
\* or kill the process.
GetFirstValue(attribute) ==
    /\ Alive
    /\ call' = [op |-> "GetFirstValue", attribute |-> attribute]
    /\ IF attribute \notin DOMAIN _data
       THEN ret' = RetString(EmptyString) /\ err' = "none"
       ELSE IF _data[attribute] # << >>
       THEN ret' = RetString(Head(_data[attribute])) /\ err' = "none"
       ELSE \/ ret' \in {RetString(x) : x \in UndefinedReads} /\ err' = "none"
            \/ ret' = Void /\ err' = "crash"
    /\ sent' = << >>
    /\ UNCHANGED <<_dn, _isnew, _data, _added, _removed>>

----------------------------------------------------------------------------
(* Edits *)

\* AddValue skipping a value the attribute already holds
AddValueOnce(attribute, value) ==
    /\ Alive
    /\ Staged + 1 <= MaxStaged
    /\ call' = [op |-> "AddValue", attribute |-> attribute, value |-> value]
    /\ IF Count(Held(_data, attribute), value) > 0
       THEN UNCHANGED <<_data, _added>>
       ELSE /\ _data' = Put(_data, attribute,
                            Append(Held(_data, attribute), value))
            /\ _added' = Put(_added, attribute,
                             Append(Held(_added, attribute), value))
    /\ ret' = Void
    /\ err' = "none"
    /\ sent' = << >>
    /\ UNCHANGED <<_dn, _isnew, _removed>>

\* void LDAPEntry::AddValue(std::string attribute, std::string value)
AddValue(attribute, value) ==
    /\ Alive
    /\ Staged + 1 <= MaxStaged
    /\ call' = [op |-> "AddValue", attribute |-> attribute, value |-> value]
    /\ _data' = Put(_data, attribute, Append(Held(_data, attribute), value))
    /\ _added' = Put(_added, attribute, Append(Held(_added, attribute), value))
    /\ ret' = Void
    /\ err' = "none"
    /\ sent' = << >>
    /\ UNCHANGED <<_dn, _isnew, _removed>>

\* _removed after the loop of RemoveValue: one push_back per element of the
\* attribute's list that compares equal to value
RemovedAfterRemoveValue(removed, list, attribute, value) ==
    IF Count(list, value) = 0 THEN removed
    ELSE Put(removed, attribute,
             Held(removed, attribute) \o Copies(value, Count(list, value)))

\* _data after RemoveValue: the loop erases nothing from the list; the key
\* is erased when the list is empty
DataAfterRemoveValue(data, attribute, value) ==
    IF data[attribute] = << >> THEN Erase(data, attribute) ELSE data

\* void LDAPEntry::RemoveValue(std::string attribute, std::string value)
RemoveValue(attribute, value) ==
    /\ Alive
    /\ Staged + Count(Held(_data, attribute), value) <= MaxStaged
    /\ call' = [op |-> "RemoveValue", attribute |-> attribute, value |-> value]
    /\ IF attribute \notin DOMAIN _data
       THEN UNCHANGED <<_data, _removed>>
       ELSE /\ _removed' = RemovedAfterRemoveValue(_removed, _data[attribute],
                                                   attribute, value)
            /\ _data' = DataAfterRemoveValue(_data, attribute, value)
    /\ ret' = Void
    /\ err' = "none"
    /\ sent' = << >>
    /\ UNCHANGED <<_dn, _isnew, _added>>

\* RemoveAllValues clearing the list instead of erasing the key
RemoveAllValuesKeepsKey(attribute) ==
    /\ Alive
    /\ Staged + Len(Held(_data, attribute)) <= MaxStaged
    /\ call' = [op |-> "RemoveAllValues", attribute |-> attribute]
    /\ IF attribute \notin DOMAIN _data
       THEN UNCHANGED <<_data, _removed>>
       ELSE /\ _removed' =
                  IF _data[attribute] = << >> THEN _removed
                  ELSE Put(_removed, attribute,
                           Held(_removed, attribute) \o _data[attribute])
            /\ _data' = Put(_data, attribute, << >>)
    /\ ret' = Void
    /\ err' = "none"
    /\ sent' = << >>
    /\ UNCHANGED <<_dn, _isnew, _added>>

\* void LDAPEntry::RemoveAllValues(std::string attribute)
RemoveAllValues(attribute) ==
    /\ Alive
    /\ Staged + Len(Held(_data, attribute)) <= MaxStaged
    /\ call' = [op |-> "RemoveAllValues", attribute |-> attribute]
    /\ IF attribute \notin DOMAIN _data
       THEN UNCHANGED <<_data, _removed>>
       ELSE /\ _removed' =
                  IF _data[attribute] = << >> THEN _removed
                  ELSE Put(_removed, attribute,
                           Held(_removed, attribute) \o _data[attribute])
            /\ _data' = Erase(_data, attribute)
    /\ ret' = Void
    /\ err' = "none"
    /\ sent' = << >>
    /\ UNCHANGED <<_dn, _isnew, _added>>

----------------------------------------------------------------------------
(* Sync *)

LDAP_MOD_ADD == "LDAP_MOD_ADD"
LDAP_MOD_DELETE == "LDAP_MOD_DELETE"
LDAP_SUCCESS == "LDAP_SUCCESS"
\* any other result code of the library call
LDAP_OTHER == "LDAP_OTHER"
ResultCodes == {LDAP_SUCCESS, LDAP_OTHER}

\* the NULL-terminated char* array built from one value vector
StrVals(list) == [j \in 1..Len(list) |-> CStr(list[j])]

\* one LDAPMod per key of the map, in iteration order
Mods(m, op) ==
    [i \in 1..Len(Keys(m)) |->
        [mod_op |-> op,
         mod_type |-> Keys(m)[i],
         mod_vals |-> StrVals(m[Keys(m)[i]])]]

\* SyncMods with its two loops swapped
SyncModsAddsFirst(removed, added) ==
    Mods(added, LDAP_MOD_ADD) \o Mods(removed, LDAP_MOD_DELETE)

\* the mods vector of Sync(): the loop over _removed, then the loop over _added
SyncMods(removed, added) ==
    Mods(removed, LDAP_MOD_DELETE) \o Mods(added, LDAP_MOD_ADD)

\* LDAPErrCode2Exception(ldap, rc): raises the exception of the result code
LDAPErrCode2Exception(rc) == "LDAPException"

\* the library call Sync() makes
SyncRequest(isnew, dn, mods) ==
    [fn |-> IF isnew THEN "ldap_add_ext_s" ELSE "ldap_modify_ext_s",
     dn |-> dn,
     mods |-> mods]

\* Sync() dropping the staged removals once they are in the request
SyncDropsRemoved ==
    /\ Alive
    /\ \E rc \in ResultCodes :
          /\ call' = [op |-> "Sync"]
          /\ sent' = <<SyncRequest(_isnew, _dn, SyncMods(_removed, _added))>>
          /\ ret' = RetCode(rc)
          /\ err' = IF rc # LDAP_SUCCESS THEN LDAPErrCode2Exception(rc)
                    ELSE "none"
    /\ _removed' = NoMap
    /\ UNCHANGED <<_dn, _isnew, _data, _added>>

\* Sync() sending a rejected request a second time
SyncRetries ==
    /\ Alive
    /\ \E rc \in ResultCodes :
          /\ call' = [op |-> "Sync"]
          /\ sent' =
                IF rc # LDAP_SUCCESS
                THEN <<SyncRequest(_isnew, _dn, SyncMods(_removed, _added)),
                       SyncRequest(_isnew, _dn, SyncMods(_removed, _added))>>
                ELSE <<SyncRequest(_isnew, _dn, SyncMods(_removed, _added))>>
          /\ ret' = RetCode(rc)
          /\ err' = IF rc # LDAP_SUCCESS THEN LDAPErrCode2Exception(rc)
                    ELSE "none"
    /\ UNCHANGED <<_dn, _isnew, _data, _added, _removed>>

\* void LDAPEntry::Sync(); rc is the library's answer
Sync ==
    /\ Alive
    /\ \E rc \in ResultCodes :
          /\ call' = [op |-> "Sync"]
          /\ sent' = <<SyncRequest(_isnew, _dn, SyncMods(_removed, _added))>>
          /\ ret' = RetCode(rc)
          /\ err' = IF rc # LDAP_SUCCESS THEN LDAPErrCode2Exception(rc)
                    ELSE "none"
    /\ UNCHANGED <<_dn, _isnew, _data, _added, _removed>>

----------------------------------------------------------------------------
(* Output *)

\* the build has ldif.h
HAVE_LDIF_H == TRUE

k_NewItemsString == "All items in this file are new."

\* one LDIF_PUT_VALUE line per value, attribute by attribute in map order;
\* a value is passed with its length, so it is written whole
RECURSIVE ValueLines(_, _)
ValueLines(m, ks) ==
    IF ks = << >> THEN << >>
    ELSE [j \in 1..Len(m[Head(ks)]) |->
             [name |-> Head(ks), val |-> m[Head(ks)][j]]]
         \o ValueLines(m, Tail(ks))

\* Written choosing its view by _added instead of _data
WrittenByAdded(dn, data, added) ==
    IF DOMAIN added # {}
    THEN RetStream(<<dn>>, <<k_NewItemsString>>, ValueLines(added, Keys(added)))
    ELSE RetStream(<<dn>>, << >>, ValueLines(data, Keys(data)))

\* what Output() writes: the dn line, then the values of _data, or the
\* comment and the values of _added when _data has no key
Written(dn, data, added) ==
    IF ~HAVE_LDIF_H THEN RetStream(<< >>, << >>, << >>)
    ELSE IF DOMAIN data = {}
    THEN RetStream(<<dn>>, <<k_NewItemsString>>, ValueLines(added, Keys(added)))
    ELSE RetStream(<<dn>>, << >>, ValueLines(data, Keys(data)))

\* void LDAPEntry::Output(std::ostream& out)
Output ==
    /\ Alive
    /\ call' = [op |-> "Output"]
    /\ ret' = Written(_dn, _data, _added)
    /\ err' = "none"
    /\ sent' = << >>
    /\ UNCHANGED <<_dn, _isnew, _data, _added, _removed>>

----------------------------------------------------------------------------
(* History variables: they record what the calls made so far should have   *)
(* produced, and never influence the record.                               *)

\* the list an attribute holds when adds append and removes drop every
\* occurrence, applied to the call just made
SimAfter(s, c) ==
    IF c.op = "AddValue" THEN [s EXCEPT ![c.attribute] = Append(@, c.value)]
    ELSE IF c.op = "RemoveValue"
    THEN [s EXCEPT ![c.attribute] = Without(@, c.value)]
    ELSE IF c.op = "RemoveAllValues" THEN [s EXCEPT ![c.attribute] = << >>]
    ELSE s

\* the values the record should hold, as of the last time the directory
\* agreed with it (hydration, or a Sync() the library accepted)
BaseAfter(b, c, r, s) ==
    IF c.op = "Sync" /\ r = RetCode(LDAP_SUCCESS) THEN s ELSE b

NoHist == UNCHANGED <<sim, base>>

Hist ==
    /\ sim' = SimAfter(sim, call')
    /\ base' = BaseAfter(base, call', ret', sim')

Next ==
    \/ GetDN /\ NoHist
    \/ GetKeys /\ NoHist
    \/ \E n \in Names : GetValue(n) /\ NoHist
    \/ \E n \in Names : GetFirstValue(n) /\ NoHist
    \/ \E n \in Names, v \in Values : AddValue(n, v) /\ NoHist
    \/ \E n \in Names, v \in Values : RemoveValue(n, v) /\ NoHist
    \/ \E n \in Names : RemoveAllValues(n) /\ NoHist
    \/ Sync /\ NoHist
    \/ Output /\ NoHist

NextHist ==
    \/ GetDN /\ Hist
    \/ GetKeys /\ Hist
    \/ \E n \in Names : GetValue(n) /\ Hist
    \/ \E n \in Names : GetFirstValue(n) /\ Hist
    \/ \E n \in Names, v \in Values : AddValue(n, v) /\ Hist
    \/ \E n \in Names, v \in Values : RemoveValue(n, v) /\ Hist
    \/ \E n \in Names : RemoveAllValues(n) /\ Hist
    \/ Sync /\ Hist
    \/ Output /\ Hist

\* the record and its last call
Spec == Init /\ [][Next]_vars

\* the same, with the history variables kept
SpecHist == Init /\ [][NextHist]_vars

----------------------------------------------------------------------------
(* Vocabulary of the properties *)

\* the record has staged edits
HasPendingChanges == _added # NoMap \/ _removed # NoMap

\* the last call was an accepted / a rejected Sync()
SyncAccepted == call.op = "Sync" /\ ret = RetCode(LDAP_SUCCESS)
SyncRejected == call.op = "Sync" /\ ret # RetCode(LDAP_SUCCESS)

\* the operation batch of the request the last Sync() sent
Batch == sent[1].mods

\* the attribute names that hold at least one value
NonEmptyKeys(data) == {n \in DOMAIN data : data[n] # << >>}

\* a create request's attribute set for the values of data: one entry per
\* attribute that holds values, carrying them unchanged
AttributeSet(data) ==
    [i \in 1..Len(Keys([n \in NonEmptyKeys(data) |-> data[n]])) |->
        [mod_op |-> LDAP_MOD_ADD,
         mod_type |-> Keys([n \in NonEmptyKeys(data) |-> data[n]])[i],
         mod_vals |-> data[Keys([n \in NonEmptyKeys(data) |-> data[n]])[i]]]]

\* the operations of the staged delta, values unchanged: one DELETE per key
\* of removed, then one ADD per key of added
DeltaOps(removed, added) ==
    [i \in 1..Len(Keys(removed)) |->
        [mod_op |-> LDAP_MOD_DELETE, mod_type |-> Keys(removed)[i],
         mod_vals |-> removed[Keys(removed)[i]]]]
    \o
    [i \in 1..Len(Keys(added)) |->
        [mod_op |-> LDAP_MOD_ADD, mod_type |-> Keys(added)[i],
         mod_vals |-> added[Keys(added)[i]]]]

\* operations as they go on the wire: every value as a C string
Encoded(ops) ==
    [i \in 1..Len(ops) |-> [ops[i] EXCEPT !.mod_vals = StrVals(@)]]

Range(s) == {s[i] : i \in 1..Len(s)}

----------------------------------------------------------------------------
(* C1 *)

\* C1: after a Sync() the library accepted, _added and _removed have no keys
\* and _isnew is false, whatever _isnew was before.
C1_AcceptedSyncClearsDelta ==
    SyncAccepted => (~HasPendingChanges /\ _isnew = FALSE)

----------------------------------------------------------------------------
(* C2 *)

\* C2: a Sync() the library rejects leaves _data, _added, _removed, _dn and
\* _isnew as they were before the call and raises LDAPException.
C2_RejectedSyncChangesNothing ==
    [][SyncRejected' =>
          /\ UNCHANGED <<_data, _added, _removed, _dn, _isnew>>
          /\ err' = "LDAPException"]_vars

\* a rejected Sync() of a record with staged additions and removals
C2_Witness ==
    SyncRejected /\ _added # NoMap /\ _removed # NoMap /\ Len(Batch) >= 2

----------------------------------------------------------------------------
(* C3 *)

\* C3: in the batch Sync() builds, every DELETE operation comes before every
\* ADD operation, also when _removed and _added hold the same attribute.
C3_DeletesBeforeAdds ==
    call.op = "Sync" =>
        \A i, j \in 1..Len(Batch) :
            (Batch[i].mod_op = LDAP_MOD_DELETE /\ Batch[j].mod_op = LDAP_MOD_ADD)
                => i < j

\* a Sync() whose batch deletes from and adds to the same attribute
C3_Witness ==
    /\ call.op = "Sync"
    /\ \E i, j \in 1..Len(Batch) :
          /\ Batch[i].mod_op = LDAP_MOD_DELETE
          /\ Batch[j].mod_op = LDAP_MOD_ADD
          /\ Batch[i].mod_type = Batch[j].mod_type

----------------------------------------------------------------------------
(* C4 *)

\* what GetValue(attribute) returns in the current state
GetValueResult(attribute) == Subscript(_data, attribute)[attribute]

\* C4: on a record built new, GetValue(name) is the list got by replaying
\* the calls in order, AddValue appending and RemoveValue dropping every
\* occurrence of its value.
C4_GetValueIsReplay ==
    _isnew => \A n \in Names : GetValueResult(n) = sim[n]

----------------------------------------------------------------------------
(* C5 *)

\* C5: Sync() on a new record sends a create for _dn whose attribute set is
\* _data (no DELETE, not the delta); on an existing record it sends a modify
\* for _dn carrying exactly the operations of the delta. Values are compared
\* as they go on the wire.
C5_CreateSendsDataModifySendsDelta ==
    call.op = "Sync" =>
        /\ Len(sent) = 1
        /\ sent[1].dn = _dn
        /\ IF _isnew
           THEN /\ sent[1].fn = "ldap_add_ext_s"
                /\ Batch = Encoded(AttributeSet(_data))
           ELSE /\ sent[1].fn = "ldap_modify_ext_s"
                /\ Batch = Encoded(DeltaOps(_removed, _added))

----------------------------------------------------------------------------
(* C6 *)

\* C6: Sync() on an existing record with nothing staged sends no request.
C6_EmptySyncSendsNothing ==
    (call.op = "Sync" /\ ~_isnew /\ ~HasPendingChanges) =>
        (sent = << >> /\ err = "none")

----------------------------------------------------------------------------
(* C7 *)

\* C7: RemoveValue(name, value) with name absent from _data, or value not in
\* _data[name], leaves _data (key set included), _added and _removed as they
\* were and raises nothing.
C7_RemoveValueOfAbsentIsNoOp ==
    [][\A n \in Names, v \in Values :
          ( /\ call' = [op |-> "RemoveValue", attribute |-> n, value |-> v]
            /\ Count(Held(_data, n), v) = 0 )
          => ( UNCHANGED <<_data, _added, _removed>> /\ err' = "none" )]_vars

----------------------------------------------------------------------------
(* C8 *)

\* C8: GetKeys() returns exactly the attribute names whose value list is not
\* empty, each once.
C8_GetKeysAreNonEmptyAttributes ==
    call.op = "GetKeys" =>
        /\ Range(ret.keys) = NonEmptyKeys(_data)
        /\ Len(ret.keys) = Cardinality(Range(ret.keys))

----------------------------------------------------------------------------
(* C9 *)

\* C9: GetFirstValue(name) returns the first value held for name, and the
\* empty string when name is absent or holds no values; it never fails.
C9_GetFirstValueIsHeadOrEmpty ==
    call.op = "GetFirstValue" =>
        /\ err = "none"
        /\ ret = RetString(IF Held(_data, call.attribute) # << >>
                           THEN Head(_data[call.attribute])
                           ELSE EmptyString)

----------------------------------------------------------------------------
(* C10 *)

\* C10: the batch is minimal against the last clean baseline: an attribute
\* whose values are again what they were at the baseline has no operation in
\* the batch, and no DELETE carries a value the record did not hold then.
C10_BatchIsMinimal ==
    [][call'.op = "Sync" =>
          \A i \in 1..Len(sent'[1].mods) :
              LET mod == sent'[1].mods[i] IN
              /\ sim[mod.mod_type] # base[mod.mod_type]
              /\ mod.mod_op = LDAP_MOD_DELETE =>
                     Range(mod.mod_vals)
                         \subseteq {CStr(x) : x \in Range(base[mod.mod_type])}
      ]_vars

----------------------------------------------------------------------------
(* C11 *)

\* the attribute names of the raw entry the record was built from
RawNames == {n \in Names : base[n] # << >>}

\* C11: a record hydrated from a raw entry holds exactly that entry (same
\* names, same values in the same order), has nothing staged and is not
\* new; so its first GetKeys() is the raw names, its first
\* GetFirstValue(name) the first raw value of name, and its first GetValue
\* of a name outside the entry the empty list.
C11_HydratedRecordIsRawEntry ==
    [][call = NoCall =>
          /\ RawNames # {} => ~_isnew
          /\ ~_isnew =>
                /\ DOMAIN _data = RawNames
                /\ \A n \in DOMAIN _data : _data[n] = base[n]
                /\ ~HasPendingChanges
                /\ call'.op = "GetKeys" => Range(ret'.keys) = RawNames
                /\ (call'.op = "GetFirstValue" /\ call'.attribute \in RawNames)
                      => ret' = RetString(Head(base[call'.attribute]))
                /\ (call'.op = "GetValue" /\ call'.attribute \notin RawNames)
                      => ret' = RetVector(<< >>)
      ]_vars

\* GetFirstValue on a hydrated, unedited record whose attribute has two
\* different values, one of them with an embedded NUL
C11_Witness ==
    /\ ~_isnew
    /\ ~HasPendingChanges
    /\ DOMAIN _data = Names
    /\ call.op = "GetFirstValue"
    /\ Len(base[call.attribute]) = 2
    /\ base[call.attribute][1] # base[call.attribute][2]
    /\ ret = RetString(base[call.attribute][1])

----------------------------------------------------------------------------
(* C12 *)

----------------------------------------------------------------------------
(* C13 *)

\* C13: a Sync() call hands at most one request to the library, and raises
\* exactly when that request was rejected.
C13_OneRequestRaisedIffRejected ==
    call.op = "Sync" =>
        /\ Len(sent) <= 1
        /\ err = "LDAPException" <=> ret # RetCode(LDAP_SUCCESS)

\* a rejected create carrying two attributes: one request, one exception
C13_Witness ==
    /\ SyncRejected
    /\ Len(sent) = 1
    /\ sent[1].fn = "ldap_add_ext_s"
    /\ DOMAIN _added = Names
    /\ err = "LDAPException"

----------------------------------------------------------------------------
(* C14 *)

\* C14: an edit of a batch the library accepted is not sent again: a Sync()
\* that follows an accepted Sync() with no edit in between has an empty
\* batch.
C14_AcceptedEditsNotResent ==
    [][(SyncAccepted /\ call'.op = "Sync") => sent'[1].mods = << >>]_vars

----------------------------------------------------------------------------
(* C15 *)

\* C15: on an existing record the batch is exactly one DELETE per key of
\* _removed carrying that key's values in order, then one ADD per key of
\* _added carrying that key's values in order, keys ascending in each group.
C15_BatchIsDelta ==
    (call.op = "Sync" /\ ~_isnew) => Batch = DeltaOps(_removed, _added)

----------------------------------------------------------------------------
(* C16 *)

\* C16: RemoveValue(name, value) called twice in a row leaves _data, _added
\* and _removed as one call does.
C16_RemoveValueIsIdempotent ==
    [][\A n \in Names, v \in Values :
          ( /\ call = [op |-> "RemoveValue", attribute |-> n, value |-> v]
            /\ call' = [op |-> "RemoveValue", attribute |-> n, value |-> v] )
          => UNCHANGED <<_data, _added, _removed>>]_vars

----------------------------------------------------------------------------
(* C17 *)

\* C17: RemoveValue(name, value) on a list with k >= 1 occurrences of value
\* appends k copies of value to _removed[name], leaves _added alone, and
\* erases the key name from _data when the list is empty after the removal.
C17_RemoveValueStagesAndDrops ==
    [][\A n \in Names, v \in Values :
          ( /\ call' = [op |-> "RemoveValue", attribute |-> n, value |-> v]
            /\ Count(Held(_data, n), v) >= 1 )
          => /\ n \in DOMAIN _removed'
             /\ _removed'[n] =
                   Held(_removed, n) \o Copies(v, Count(_data[n], v))
             /\ _added' = _added
             /\ Without(_data[n], v) = << >> => n \notin DOMAIN _data'
      ]_vars

----------------------------------------------------------------------------
(* C18 *)

\* m and m2 agree on every key but n
SameBut(m, m2, n) ==
    /\ DOMAIN m \ {n} = DOMAIN m2 \ {n}
    /\ \A k \in DOMAIN m \ {n} : m[k] = m2[k]

\* C18: RemoveAllValues(name) changes nothing when name is absent from
\* _data; otherwise it appends the values of name, in order, to
\* _removed[name], erases the key name from _data and leaves _added and the
\* other attributes alone, so GetValue(name) is empty and GetKeys() has no
\* name afterwards.
C18_RemoveAllValuesStagesAndErases ==
    [][\A n \in Names :
          call' = [op |-> "RemoveAllValues", attribute |-> n] =>
             IF n \notin DOMAIN _data
             THEN UNCHANGED <<_data, _added, _removed>>
             ELSE /\ Held(_removed', n) = Held(_removed, n) \o _data[n]
                  /\ SameBut(_removed, _removed', n)
                  /\ n \notin DOMAIN _data'
                  /\ SameBut(_data, _data', n)
                  /\ _added' = _added
                  /\ Subscript(_data', n)[n] = << >>
                  /\ n \notin Range(KeysOf(_data'))
      ]_vars

\* RemoveAllValues of an attribute that held two different values, another
\* attribute staying
C18_Witness ==
    /\ call.op = "RemoveAllValues"
    /\ call.attribute \notin DOMAIN _data
    /\ DOMAIN _data # {}
    /\ call.attribute \in DOMAIN _removed
    /\ Len(_removed[call.attribute]) = 2
    /\ _removed[call.attribute][1] # _removed[call.attribute][2]

----------------------------------------------------------------------------
(* C19 *)

\* C19: AddValue(name, value) appends value to _data[name] and to
\* _added[name], creating either key when absent and never dropping a
\* duplicate, and leaves _removed and every other attribute alone.
C19_AddValueAppendsToBoth ==
    [][\A n \in Names, v \in Values :
          call' = [op |-> "AddValue", attribute |-> n, value |-> v] =>
             /\ n \in DOMAIN _data'
             /\ _data'[n] = Append(Held(_data, n), v)
             /\ SameBut(_data, _data', n)
             /\ n \in DOMAIN _added'
             /\ _added'[n] = Append(Held(_added, n), v)
             /\ SameBut(_added, _added', n)
             /\ _removed' = _removed
      ]_vars

\* the same value added twice: two occurrences in _data and in _added
C19_Witness ==
    /\ call.op = "AddValue"
    /\ Count(_data[call.attribute], call.value) >= 2
    /\ Count(_added[call.attribute], call.value) >= 2

----------------------------------------------------------------------------
(* C20 *)

\* C20: GetDN, GetKeys, GetValue and GetFirstValue change nothing of the
\* record, for a present or an absent attribute name, and GetValue of an
\* absent name returns the empty list.
C20_QueriesAreReadOnly ==
    [][call'.op \in {"GetDN", "GetKeys", "GetValue", "GetFirstValue"} =>
          /\ UNCHANGED <<_dn, _isnew, _data, _added, _removed>>
          /\ (call'.op = "GetValue" /\ call'.attribute \notin DOMAIN _data)
                => ret' = RetVector(<< >>)
      ]_vars

====
